---- MODULE Spec2Model ----
(***************************************************************************)
(* State-machine model of src/extract_quickapp.py (class QuickAppExtractor *)
(* and main).  Every blocking call the program makes (a subprocess.run of  *)
(* the adb bridge, an os.makedirs, an os.rename, an input) is one step;    *)
(* the outcome of the call (exit code, standard output, or a raised        *)
(* exception) is chosen by the environment.                                *)
(*                                                                         *)
(* Text is modelled as sequences of one-character strings, so that the     *)
(* f-string concatenations of the program are real concatenations.         *)
(* Exit codes and call outcomes are the strings "0", "1" (any non-zero     *)
(* exit code) and "raise" (subprocess.run / os.* raised an Exception).     *)
(***************************************************************************)
EXTENDS Integers, Sequences, FiniteSets, TLC

\* ---------------------------------------------------------------- bounds
MaxApps == 2        \* most directories the remote listing returns
MaxClock == 1       \* the wall clock runs over the seconds 0..MaxClock
MaxInputLen == 2    \* longest confirmation typed at the clear prompt
MaxDevLines == 2    \* most lines after the header of `adb devices`

\* ------------------------------------------------------------ text helpers
SeqsUpTo(S, n) == UNION {[1..k -> S] : k \in 0..n}

Range(s) == {s[i] : i \in DOMAIN s}

IsSpace(c) == c \in {" ", "\r", "\t"}

\* str.strip(): drop leading and trailing whitespace
RECURSIVE LStrip(_)
LStrip(s) == IF s # <<>> /\ IsSpace(Head(s)) THEN LStrip(Tail(s)) ELSE s

RECURSIVE RStrip(_)
RStrip(s) ==
  IF s # <<>> /\ IsSpace(s[Len(s)]) THEN RStrip(SubSeq(s, 1, Len(s) - 1)) ELSE s

Strip(s) == RStrip(LStrip(s))

\* str.lower() on the characters a confirmation may hold
LowerChar(c) == CASE c = "Y" -> "y" [] c = "N" -> "n" [] c = "E" -> "e"
                  [] c = "S" -> "s" [] OTHER -> c

Lower(s) == [i \in DOMAIN s |-> LowerChar(s[i])]

\* datetime.now().strftime('%Y%m%d_%H%M%S'): a fixed-width date part, an
\* underscore, and the time of day at one-second resolution (two digits here)
Digit(n) == CASE n = 0 -> "0" [] n = 1 -> "1" [] n = 2 -> "2" [] n = 3 -> "3"
              [] n = 4 -> "4" [] n = 5 -> "5" [] n = 6 -> "6" [] n = 7 -> "7"
              [] n = 8 -> "8" [] OTHER -> "9"

Strftime(t) == <<"D", "_", Digit((t \div 10) % 10), Digit(t % 10)>>

\* f'{name}_{timestamp}' under output_dir
DirName(name, stamp) == name \o <<"_">> \o stamp

\* ------------------------------------------------------- input alphabets
\* directory names under source_dir (no whitespace inside a name)
Idents == {<<"a">>, <<"b">>, <<"c">>}

\* values a manifest may give its `name` field
ManifestNames == {<<"W">>, <<"b">>}

\* ------------------------------------------------ json.loads on token lists
\* A document is a sequence of lexical tokens: punctuation and string literals.
LB == [t |-> "{"]
RB == [t |-> "}"]
LK == [t |-> "["]
RK == [t |-> "]"]
CO == [t |-> ":"]
CM == [t |-> ","]
Str(s) == [t |-> "str", v |-> s]

KeyName == <<"n", "a", "m", "e">>
KeyLabel == <<"l">>

ParseFail == [ok |-> FALSE]

IsTok(d, i, t) == i <= Len(d) /\ d[i].t = t

RECURSIVE ParseValue(_, _), ParseMembers(_, _, _), ParseElems(_, _, _)
ParseValue(d, i) ==
  IF IsTok(d, i, "str")
  THEN [ok |-> TRUE, val |-> [k |-> "str", s |-> d[i].v], next |-> i + 1]
  ELSE IF IsTok(d, i, "{")
  THEN IF IsTok(d, i + 1, "}")
       THEN [ok |-> TRUE, val |-> [k |-> "obj", m |-> <<>>], next |-> i + 2]
       ELSE ParseMembers(d, i + 1, <<>>)
  ELSE IF IsTok(d, i, "[")
  THEN IF IsTok(d, i + 1, "]")
       THEN [ok |-> TRUE, val |-> [k |-> "arr", e |-> <<>>], next |-> i + 2]
       ELSE ParseElems(d, i + 1, <<>>)
  ELSE ParseFail

ParseMembers(d, i, acc) ==
  IF IsTok(d, i, "str") /\ IsTok(d, i + 1, ":")
  THEN LET r == ParseValue(d, i + 2) IN
       IF ~r.ok THEN ParseFail
       ELSE LET acc2 == Append(acc, <<d[i].v, r.val>>) IN
            IF IsTok(d, r.next, ",") THEN ParseMembers(d, r.next + 1, acc2)
            ELSE IF IsTok(d, r.next, "}")
            THEN [ok |-> TRUE, val |-> [k |-> "obj", m |-> acc2], next |-> r.next + 1]
            ELSE ParseFail
  ELSE ParseFail

ParseElems(d, i, acc) ==
  LET r == ParseValue(d, i) IN
  IF ~r.ok THEN ParseFail
  ELSE LET acc2 == Append(acc, r.val) IN
       IF IsTok(d, r.next, ",") THEN ParseElems(d, r.next + 1, acc2)
       ELSE IF IsTok(d, r.next, "]")
       THEN [ok |-> TRUE, val |-> [k |-> "arr", e |-> acc2], next |-> r.next + 1]
       ELSE ParseFail

\* json.loads(text): the whole text must be one value; otherwise JSONDecodeError
JsonLoads(d) ==
  LET r == ParseValue(d, 1) IN
  IF r.ok /\ r.next = Len(d) + 1 THEN [ok |-> TRUE, val |-> r.val] ELSE ParseFail

\* dict.get(key, default) on the member list (a later duplicate key wins)
RECURSIVE DictGet(_, _, _)
DictGet(m, key, default) ==
  IF m = <<>> THEN default
  ELSE LET last == m[Len(m)] IN
       IF last[1] = key THEN last[2].s
       ELSE DictGet(SubSeq(m, 1, Len(m) - 1), key, default)

\* The sample manifests the remote `cat` may print.  `shape` records what the
\* sample is (by construction of the sample, not by parsing it).
NoDoc == [toks |-> <<>>, shape |-> "invalid", name |-> <<>>]

ManifestDocs ==
  {NoDoc,
   [toks |-> <<LB, Str(KeyName), CO, Str(<<"W">>)>>, shape |-> "invalid", name |-> <<>>],
   [toks |-> <<LB, Str(KeyName), CO, Str(<<"W">>), CM, RB>>, shape |-> "invalid",
    name |-> <<>>],
   [toks |-> <<LB, RB>>, shape |-> "noname", name |-> <<>>],
   [toks |-> <<LB, Str(KeyLabel), CO, Str(<<"W">>), RB>>, shape |-> "noname",
    name |-> <<>>],
   [toks |-> <<LK, Str(KeyName), RK>>, shape |-> "noname", name |-> <<>>],
   [toks |-> <<Str(KeyName)>>, shape |-> "noname", name |-> <<>>]}
  \cup {[toks |-> <<LB, Str(KeyName), CO, Str(n), RB>>, shape |-> "named", name |-> n] :
          n \in ManifestNames}
  \cup {[toks |-> <<LB, Str(KeyLabel), CO, LK, RK, CM, Str(KeyName), CO, Str(n), RB>>,
         shape |-> "named", name |-> n] : n \in {<<"W">>}}

\* the result object of the remote manifest read: exit code and standard output
\* (a failing `cat` prints nothing, or what it read before it failed)
ManifestReads ==
  {[rc |-> "raise", doc |-> NoDoc]}
  \cup {[rc |-> "0", doc |-> d] : d \in ManifestDocs}
  \cup {[rc |-> "1", doc |-> d] :
          d \in {x \in ManifestDocs : x = NoDoc \/ x.shape = "named"}}

\* get_app_name_from_manifest, given what subprocess.run produced
\* (faulty variant: the exit code of the read is not looked at)
GetAppNameNoRcCheck(app_name, result) ==
  IF result.rc = "raise" THEN app_name
  ELSE LET manifest_data == JsonLoads(result.doc.toks) IN
       IF ~manifest_data.ok THEN app_name
       ELSE IF manifest_data.val.k # "obj" THEN app_name
       ELSE DictGet(manifest_data.val.m, KeyName, app_name)

GetAppNameFromManifest(app_name, result) ==
  IF result.rc = "raise" THEN app_name                        \* except Exception
  ELSE IF result.rc # "0" THEN app_name                        \* returncode != 0
  ELSE LET manifest_data == JsonLoads(result.doc.toks) IN
       IF ~manifest_data.ok THEN app_name                      \* JSONDecodeError
       ELSE IF manifest_data.val.k # "obj" THEN app_name       \* AttributeError
       ELSE DictGet(manifest_data.val.m, KeyName, app_name)

\* ------------------------------------------------- check_adb_device parsing
\* line.split()[0]: the first whitespace-delimited field of a non-blank line
RECURSIVE TakeField(_)
TakeField(s) ==
  IF s = <<>> \/ IsSpace(Head(s)) THEN <<>> ELSE <<Head(s)>> \o TakeField(Tail(s))

FirstField(line) == TakeField(LStrip(line))

\* [f(line) for line in lines if line.strip()]
RECURSIVE NonBlank(_)
NonBlank(lines) ==
  IF lines = <<>> THEN <<>>
  ELSE IF Strip(Head(lines)) # <<>> THEN <<Head(lines)>> \o NonBlank(Tail(lines))
  ELSE NonBlank(Tail(lines))

\* result.stdout.splitlines()[1:]
AfterHeader(lines) == IF lines = <<>> THEN <<>> ELSE Tail(lines)

ParseDevices(lines) ==
  LET kept == NonBlank(AfterHeader(lines)) IN [i \in DOMAIN kept |-> FirstField(kept[i])]

DevHeader == <<"L">>
DevLines == {<<>>, <<"s", "\t", "d">>, <<"t", "\t", "o">>}
\* what `adb devices` may print: nothing at all, or the header and some lines
DevOutputs == {<<>>} \cup {<<DevHeader>> \o b : b \in SeqsUpTo(DevLines, MaxDevLines)}

\* ---------------------------------------------------- list_quickapps parsing
\* [app.strip() for app in result.stdout.splitlines() if app.strip()]
ParseApps(lines) ==
  LET kept == NonBlank(lines) IN [i \in DOMAIN kept |-> Strip(kept[i])]

LsLines == Idents \cup {<<" ">> \o id \o <<"\r">> : id \in Idents} \cup {<<>>, <<" ">>}

NoDup(s) == \A i, j \in DOMAIN s : i # j => s[i] # s[j]

\* what the remote `ls` may print: directory entries are distinct names
LsOutputs == {o \in SeqsUpTo(LsLines, MaxApps) : NoDup(ParseApps(o))}

\* ----------------------------------------------------- clear_cache prompt
InputChars == {"y", "Y", "n", " ", "e", "s"}
Inputs == SeqsUpTo(InputChars, MaxInputLen) \cup {<<"y", "e", "s">>, <<"Y", "E", "S">>}

\* confirm.lower() != 'y'  -> cancel
\* (faulty variant: any input starting with y confirms)
ConfirmedPrefix(confirm) == confirm # <<>> /\ Lower(confirm)[1] = "y"

Confirmed(confirm) == Lower(confirm) = <<"y">>

\* ------------------------------------------------------------------ state
VARIABLES
  argv,          \* sys.argv[1:] as [cmd, arg]; arg = <<>> when absent
  pc,            \* the program's position
  checkOk,       \* check_adb_device's return value: "none" | "true" | "false"
  devOut,        \* check_adb_device's local result.stdout (until it returns)
  apps,          \* the list list_quickapps returned
  idx,           \* position of the for loop over apps (1-based)
  success_count, \* the tally of extract_all / clear_cache
  summary,       \* the final "成功 N/M" log line as <<N, M>>, <<>> before it
  app,           \* extract_quickapp: app_name
  timestamp,     \* extract_quickapp: timestamp
  pullRc,        \* extract_quickapp: result.returncode of the pull
  displayName,   \* app_display_name
  manifestRead,  \* get_app_name_from_manifest: app_name and the read's result
  steps,         \* the calls made by the current / last extract_quickapp call
  callState,     \* extract_quickapp: "idle" | "running" | "returned"
  lastRet,       \* the value the last extract_quickapp call returned
  produced,      \* local directory names the current call has created
  calls,         \* the extract_quickapp calls that returned: [app, ret, names]
  clock,         \* the wall clock, in seconds
  rootExists,    \* os.path.exists(output_dir)
  dirs,          \* directories under output_dir
  filled,        \* those of dirs that are not empty
  staging,       \* apps whose /sdcard/quickapp_temp/<app> exists on the device
  bridgeCount,   \* adb invocations made so far
  confirm,       \* what input() returned at the clear prompt
  deleted,       \* apps for which clear_cache issued rm -rf, in order
  catalogue      \* lines list_packages printed: <<display name, app>>

vars == <<argv, pc, checkOk, devOut, apps, idx, success_count, summary, app,
          timestamp, pullRc, displayName, manifestRead, steps, callState, lastRet,
          produced, calls, clock, rootExists, dirs, filled, staging, bridgeCount,
          confirm, deleted, catalogue>>

cliVars == <<argv, checkOk, devOut, apps, summary, confirm, deleted, catalogue>>
retVars == <<pc, callState, lastRet, calls, success_count, idx>>
localVars == <<app, timestamp, pullRc, displayName, manifestRead>>
fsVars == <<rootExists, dirs, filled>>

NoRead == [app |-> <<>>, res |-> [rc |-> "none", doc |-> NoDoc]]
Ev(op, rc) == [op |-> op, rc |-> rc]

Argvs ==
  {[cmd |-> c, arg |-> <<>>] : c \in {"none", "extract", "list", "clear", "help", "bogus"}}
  \cup {[cmd |-> "extract", arg |-> id] : id \in Idents}

Init ==
  /\ argv \in Argvs
  /\ pc = "main"
  /\ checkOk = "none"
  /\ devOut = <<>>
  /\ apps = <<>>
  /\ idx = 1
  /\ success_count = 0
  /\ summary = <<>>
  /\ app = <<>>
  /\ timestamp = <<>>
  /\ pullRc = "none"
  /\ displayName = <<>>
  /\ manifestRead = NoRead
  /\ steps = <<>>
  /\ callState = "idle"
  /\ lastRet = FALSE
  /\ produced = <<>>
  /\ calls = <<>>
  /\ clock = 0
  /\ rootExists \in BOOLEAN
  /\ dirs = {}
  /\ filled = {}
  /\ staging = {}
  /\ bridgeCount = 0
  /\ confirm = <<>>
  /\ deleted = <<>>
  /\ catalogue = <<>>

\* ----------------------------------------------------------- control flow
\* main(): the branch each command line takes
MainNext(a) ==
  IF a.cmd = "extract" THEN (IF a.arg # <<>> THEN "eo_root" ELSE "check")
  ELSE IF a.cmd = "list" THEN "list"
  ELSE IF a.cmd = "clear" THEN "check"
  ELSE "done"                                   \* help, unknown, no argument

\* `if not self.check_adb_device(): return`
\* (faulty variant: the device check's result is ignored)
AfterCheckAlways(ok) == "list"

AfterCheck(ok) == IF ok THEN "list" ELSE "done"

\* check_adb_device's return value from what subprocess.run produced
CheckAdbDevice(result) ==
  IF result.rc = "raise" THEN FALSE
  ELSE ParseDevices(result.out) # <<>>

\* `if not apps: return`, then the caller's next statement
AfterList(cmd, found) ==
  IF found = <<>> THEN "done"
  ELSE IF cmd = "extract" THEN "ea_root"
  ELSE IF cmd = "clear" THEN "cc_confirm"
  ELSE "lp_loop"

\* `if copy_result.returncode != 0: ... return False`
\* (faulty variant: the copy's exit code is ignored)
AfterCopyIgnoring(rc) == "eo_chmod"

AfterCopy(rc) == IF rc = "0" THEN "eo_chmod" ELSE "ret_false"

\* `if chmod_result.returncode != 0: ... return False`
\* (faulty variant: a failed chmod goes on to the cleanup)
AfterChmodCleaning(rc) == IF rc = "0" THEN "eo_pull" ELSE "eo_rm"

AfterChmod(rc) == IF rc = "0" THEN "eo_pull" ELSE "ret_false"

\* the pull is followed by the cleanup whatever its exit code
\* (faulty variant: a failed pull returns before the cleanup)
AfterPullSkipping(rc) == IF rc = "0" THEN "eo_rm" ELSE "ret_false"

AfterPull(rc) == "eo_rm"

\* `if result.returncode == 0:` after the cleanup
\* (faulty variant: the pull's exit code is ignored)
AfterCleanupAlways(pull_rc) == "eo_cat"

AfterCleanup(pull_rc) == IF pull_rc = "0" THEN "eo_cat" ELSE "ret_false"

\* `if self.extract_quickapp(app): success_count += 1`
\* (faulty variant: every call is counted)
TallyAlways(count, ok) == count + 1

Tally(count, ok) == IF ok THEN count + 1 ELSE count

\* extract_quickapp returns r to its caller: extract_all's loop, or main
Ret(r, names) ==
  /\ callState' = "returned"
  /\ lastRet' = r
  /\ calls' = Append(calls, [app |-> app, ret |-> r, names |-> names])
  /\ IF argv.arg = <<>>
     THEN /\ success_count' = Tally(success_count, r)
          /\ idx' = idx + 1
          /\ pc' = "ea_loop"
     ELSE /\ pc' = "done"
          /\ UNCHANGED <<success_count, idx>>

Goto(target) ==
  IF target = "ret_false" THEN Ret(FALSE, produced)
  ELSE pc' = target /\ UNCHANGED <<callState, lastRet, calls, success_count, idx>>

Rcs == {"0", "1", "raise"}

OnRaise(rc, target) == IF rc = "raise" THEN "ret_false" ELSE target

\* ------------------------------------------------------------------ main
Main ==
  /\ pc = "main"
  /\ pc' = MainNext(argv)
  /\ IF MainNext(argv) = "eo_root"
     THEN app' = argv.arg /\ callState' = "running"
     ELSE UNCHANGED <<app, callState>>
  /\ UNCHANGED <<cliVars, idx, success_count, timestamp, pullRc, displayName,
                 manifestRead, steps, lastRet, produced, calls, clock, fsVars,
                 staging, bridgeCount>>

\* ------------------------------------------------------ check_adb_device
DevResults ==
  {[rc |-> "raise", out |-> <<>>]}
  \cup {[rc |-> c, out |-> o] : c \in {"0", "1"}, o \in DevOutputs}

CheckDevice ==
  /\ pc = "check"
  /\ \E result \in DevResults :
       /\ checkOk' = IF CheckAdbDevice(result) THEN "true" ELSE "false"
       /\ devOut' = result.out
       /\ pc' = AfterCheck(CheckAdbDevice(result))
  /\ bridgeCount' = bridgeCount + 1
  /\ UNCHANGED <<argv, apps, summary, confirm, deleted, catalogue, idx, success_count,
                 localVars, steps, callState, lastRet, produced, calls, clock, fsVars,
                 staging>>

\* -------------------------------------------------------- list_quickapps
LsResults ==
  {[rc |-> "raise", out |-> <<>>]}
  \cup {[rc |-> c, out |-> o] : c \in {"0", "1"}, o \in LsOutputs}

ListQuickappsRet(result) == IF result.rc # "0" THEN <<>> ELSE ParseApps(result.out)

ListQuickapps ==
  /\ pc = "list"
  /\ \E result \in LsResults :
       /\ apps' = ListQuickappsRet(result)
       /\ pc' = AfterList(argv.cmd, ListQuickappsRet(result))
  /\ devOut' = <<>>
  /\ bridgeCount' = bridgeCount + 1
  /\ UNCHANGED <<argv, checkOk, summary, confirm, deleted, catalogue, idx,
                 success_count, localVars, steps, callState, lastRet, produced, calls,
                 clock, fsVars, staging>>

\* ----------------------------------------------------------- extract_all
\* self.ensure_output_dir() of extract_all (outside any try)
EaRoot ==
  /\ pc = "ea_root"
  /\ \/ rootExists /\ pc' = "ea_loop" /\ UNCHANGED rootExists
     \/ ~rootExists /\ rootExists' = TRUE /\ pc' = "ea_loop"
     \/ ~rootExists /\ pc' = "crashed" /\ UNCHANGED rootExists   \* os.makedirs raised
  /\ UNCHANGED <<cliVars, idx, success_count, localVars, steps, callState, lastRet,
                 produced, calls, clock, dirs, filled, staging, bridgeCount>>

\* for app in apps: self.extract_quickapp(app) ... ; then the summary line
EaLoop ==
  /\ pc = "ea_loop"
  /\ \/ /\ idx <= Len(apps)
        /\ app' = apps[idx]
        /\ callState' = "running"
        /\ steps' = <<>>
        /\ produced' = <<>>
        /\ timestamp' = <<>>
        /\ pullRc' = "none"
        /\ displayName' = <<>>
        /\ pc' = "eo_root"
        /\ UNCHANGED summary
     \/ /\ idx > Len(apps)
        /\ summary' = <<success_count, Len(apps)>>
        /\ pc' = "done"
        /\ UNCHANGED <<app, callState, steps, produced, timestamp, pullRc, displayName>>
  /\ UNCHANGED <<argv, checkOk, devOut, apps, confirm, deleted, catalogue, idx,
                 success_count, manifestRead, lastRet, calls, clock, fsVars, staging,
                 bridgeCount>>

\* ------------------------------------------------------ extract_quickapp
\* self.ensure_output_dir() inside the try
EoRoot ==
  /\ pc = "eo_root"
  /\ \/ rootExists /\ Goto("eo_stamp") /\ UNCHANGED <<rootExists, steps>>
     \/ ~rootExists /\ rootExists' = TRUE /\ Goto("eo_stamp") /\ UNCHANGED steps
     \/ /\ ~rootExists
        /\ steps' = Append(steps, Ev("root", "raise"))
        /\ Goto("ret_false")
        /\ UNCHANGED rootExists
  /\ UNCHANGED <<cliVars, localVars, produced, clock, dirs, filled, staging,
                 bridgeCount>>

\* time passes; extract_quickapp reads the clock only when it takes the timestamp
Tick ==
  /\ pc = "eo_stamp"
  /\ clock < MaxClock
  /\ clock' = clock + 1
  /\ UNCHANGED <<cliVars, retVars, localVars, steps, produced, fsVars, staging,
                 bridgeCount>>

\* timestamp, temp_output_dir, os.makedirs(temp_output_dir, exist_ok=True)
EoStamp ==
  /\ pc = "eo_stamp"
  /\ timestamp' = Strftime(clock)
  /\ \/ /\ dirs' = dirs \cup {DirName(app, Strftime(clock))}
        /\ produced' = Append(produced, DirName(app, Strftime(clock)))
        /\ steps' = Append(steps, Ev("makedirs", "0"))
        /\ Goto("eo_mkdirp")
     \/ /\ steps' = Append(steps, Ev("makedirs", "raise"))
        /\ Goto("ret_false")
        /\ UNCHANGED <<dirs, produced>>
  /\ UNCHANGED <<cliVars, app, pullRc, displayName, manifestRead, clock, rootExists,
                 filled, staging, bridgeCount>>

\* adb shell su -c 'mkdir -p /sdcard/quickapp_temp' (result not looked at)
EoMkdirP ==
  /\ pc = "eo_mkdirp"
  /\ \E rc \in Rcs :
       /\ steps' = Append(steps, Ev("mkdir_p", rc))
       /\ Goto(OnRaise(rc, "eo_cp"))
  /\ bridgeCount' = bridgeCount + 1
  /\ UNCHANGED <<cliVars, localVars, produced, clock, fsVars, staging>>

\* adb shell su -c 'cp -r source_path temp_path'
EoCp ==
  /\ pc = "eo_cp"
  /\ \E rc \in Rcs :
       /\ steps' = Append(steps, Ev("cp", rc))
       /\ staging' = IF rc = "0" THEN staging \cup {app} ELSE staging
       /\ Goto(OnRaise(rc, AfterCopy(rc)))
  /\ bridgeCount' = bridgeCount + 1
  /\ UNCHANGED <<cliVars, localVars, produced, clock, fsVars>>

\* adb shell su -c 'chmod -R 777 temp_path'
EoChmod ==
  /\ pc = "eo_chmod"
  /\ \E rc \in Rcs :
       /\ steps' = Append(steps, Ev("chmod", rc))
       /\ Goto(OnRaise(rc, AfterChmod(rc)))
  /\ bridgeCount' = bridgeCount + 1
  /\ UNCHANGED <<cliVars, localVars, produced, clock, fsVars, staging>>

\* adb pull temp_path temp_output_dir
EoPull ==
  /\ pc = "eo_pull"
  /\ \E rc \in Rcs :
       /\ steps' = Append(steps, Ev("pull", rc))
       /\ pullRc' = rc
       /\ filled' = IF rc = "0" THEN filled \cup {DirName(app, timestamp)} ELSE filled
       /\ Goto(OnRaise(rc, AfterPull(rc)))
  /\ bridgeCount' = bridgeCount + 1
  /\ UNCHANGED <<cliVars, app, timestamp, displayName, manifestRead, produced, clock,
                 rootExists, dirs, staging>>

\* adb shell su -c 'rm -rf temp_path' (result not looked at), then the branch
\* on the pull's exit code
EoRm ==
  /\ pc = "eo_rm"
  /\ \E rc \in Rcs :
       /\ steps' = Append(steps, Ev("rm", rc))
       /\ staging' = IF rc = "0" THEN staging \ {app} ELSE staging
       /\ Goto(OnRaise(rc, AfterCleanup(pullRc)))
  /\ bridgeCount' = bridgeCount + 1
  /\ UNCHANGED <<cliVars, localVars, produced, clock, fsVars>>

\* app_display_name = self.get_app_name_from_manifest(app_name)
EoCat ==
  /\ pc = "eo_cat"
  /\ \E r \in ManifestReads :
       /\ manifestRead' = [app |-> app, res |-> r]
       /\ displayName' = GetAppNameFromManifest(app, r)
       /\ steps' = Append(steps, Ev("cat", r.rc))
  /\ bridgeCount' = bridgeCount + 1
  /\ Goto("eo_rename")
  /\ UNCHANGED <<cliVars, app, timestamp, pullRc, produced, clock, fsVars, staging>>

\* os.rename(temp_output_dir, app_output_dir); return True.  Renaming a
\* directory onto itself does nothing; onto a non-empty directory it raises.
EoRename ==
  /\ pc = "eo_rename"
  /\ manifestRead' = NoRead
  /\ LET src == DirName(app, timestamp)
         dst == DirName(displayName, timestamp)
     IN \/ /\ dst = src \/ dst \notin filled
           /\ dirs' = (dirs \ {src}) \cup {dst}
           /\ filled' = IF src \in filled THEN (filled \ {src}) \cup {dst}
                        ELSE filled \ {src, dst}
           /\ steps' = Append(steps, Ev("rename", "0"))
           /\ produced' = Append(produced, dst)
           /\ Ret(TRUE, Append(produced, dst))
        \/ /\ steps' = Append(steps, Ev("rename", "raise"))
           /\ Ret(FALSE, produced)
           /\ UNCHANGED <<dirs, filled, produced>>
  /\ UNCHANGED <<cliVars, app, timestamp, pullRc, displayName, clock, rootExists,
                 staging, bridgeCount>>

\* ---------------------------------------------------------- list_packages
LpLoop ==
  /\ pc = "lp_loop"
  /\ \/ /\ idx <= Len(apps)
        /\ \E r \in ManifestReads :
             /\ manifestRead' = [app |-> apps[idx], res |-> r]
             /\ displayName' = GetAppNameFromManifest(apps[idx], r)
             /\ catalogue' =
                  Append(catalogue, <<GetAppNameFromManifest(apps[idx], r), apps[idx]>>)
        /\ idx' = idx + 1
        /\ bridgeCount' = bridgeCount + 1
        /\ UNCHANGED pc
     \/ /\ idx > Len(apps)
        /\ pc' = "done"
        /\ manifestRead' = NoRead
        /\ UNCHANGED <<displayName, catalogue, idx, bridgeCount>>
  /\ UNCHANGED <<argv, checkOk, devOut, apps, summary, confirm, deleted, success_count,
                 app, timestamp, pullRc, steps, callState, lastRet, produced, calls,
                 clock, fsVars, staging>>

\* ------------------------------------------------------------ clear_cache
\* confirm = input(...); `if confirm.lower() != 'y': ... return`
ClearConfirm ==
  /\ pc = "cc_confirm"
  /\ \/ \E inp \in Inputs :
          /\ confirm' = inp
          /\ pc' = IF Confirmed(inp) THEN "cc_loop" ELSE "done"
     \/ pc' = "crashed" /\ UNCHANGED confirm          \* input() raised EOFError
  /\ UNCHANGED <<argv, checkOk, devOut, apps, summary, deleted, catalogue, idx,
                 success_count, localVars, steps, callState, lastRet, produced, calls,
                 clock, fsVars, staging, bridgeCount>>

\* for app in apps: rm -rf source_dir/app, tallying exit code 0; then the summary
ClearLoop ==
  /\ pc = "cc_loop"
  /\ \/ /\ idx <= Len(apps)
        /\ \E rc \in Rcs :
             success_count' = IF rc = "0" THEN success_count + 1 ELSE success_count
        /\ deleted' = Append(deleted, apps[idx])
        /\ idx' = idx + 1
        /\ bridgeCount' = bridgeCount + 1
        /\ UNCHANGED <<pc, summary>>
     \/ /\ idx > Len(apps)
        /\ summary' = <<success_count, Len(apps)>>
        /\ pc' = "done"
        /\ UNCHANGED <<deleted, idx, success_count, bridgeCount>>
  /\ UNCHANGED <<argv, checkOk, devOut, apps, confirm, catalogue, localVars, steps,
                 callState, lastRet, produced, calls, clock, fsVars, staging>>

Next ==
  \/ Main
  \/ CheckDevice
  \/ ListQuickapps
  \/ EaRoot
  \/ EaLoop
  \/ EoRoot
  \/ Tick
  \/ EoStamp
  \/ EoMkdirP
  \/ EoCp
  \/ EoChmod
  \/ EoPull
  \/ EoRm
  \/ EoCat
  \/ EoRename
  \/ LpLoop
  \/ ClearConfirm
  \/ ClearLoop

Spec == Init /\ [][Next]_vars

\* ============================================================ properties
\* helpers over the events of the current / last extract_quickapp call
Has(op) == \E i \in DOMAIN steps : steps[i].op = op
HasEv(op, rc) == \E i \in DOMAIN steps : steps[i] = Ev(op, rc)
Count(op) == Cardinality({i \in DOMAIN steps : steps[i].op = op})
Returned == callState = "returned"
IsExtractAll == argv.cmd = "extract" /\ argv.arg = <<>>
NumTrue(cs) == Cardinality({i \in DOMAIN cs : cs[i].ret})
LastCall == calls[Len(calls)]

\* C1: when the staging copy (cp -r) of an extract_quickapp call exits non-zero,
\* the call has returned False at once: no pull, no manifest read and no rename
\* happened in it, and the only local directory it made is <app>_<timestamp>.
C1_CopyFailureAborts ==
  HasEv("cp", "1") =>
    /\ Returned /\ lastRet = FALSE
    /\ steps[Len(steps)] = Ev("cp", "1")
    /\ ~Has("chmod") /\ ~Has("pull") /\ ~Has("cat") /\ ~Has("rename")
    /\ LastCall.ret = FALSE
    /\ LastCall.names = <<DirName(app, timestamp)>>

C1_Witness == Returned /\ HasEv("cp", "1") /\ HasEv("mkdir_p", "1")

\* C2: when the pull of an extract_quickapp call exits non-zero, the call
\* returns False and has issued the staging cleanup (rm -rf) exactly once,
\* whatever the cleanup's own outcome; until it returns, the cleanup is the
\* very next step.
C2_PullFailureCleansOnce ==
  HasEv("pull", "1") =>
    \/ ~Returned /\ pc = "eo_rm" /\ Count("rm") = 0
    \/ /\ Returned /\ lastRet = FALSE /\ LastCall.ret = FALSE
       /\ Count("rm") = 1
       /\ ~Has("cat") /\ ~Has("rename")

C2_Witness == Returned /\ HasEv("pull", "1") /\ HasEv("rm", "1")

\* C3: get_app_name_from_manifest hands its caller the identifier unchanged
\* when the read exits non-zero or raises, when the output is not valid JSON,
\* and when it is valid JSON without a `name` field; it hands back the `name`
\* value exactly when the read exits zero and the document has that field.
\* The caller always goes on (to the rename, or to the next catalogue line).
C3_ManifestNameFallback ==
  manifestRead.res.rc # "none" =>
    /\ pc \in {"eo_rename", "lp_loop"}
    /\ displayName =
         IF manifestRead.res.rc = "0" /\ manifestRead.res.doc.shape = "named"
         THEN manifestRead.res.doc.name
         ELSE manifestRead.app

C3_Witness ==
  /\ manifestRead.res.rc = "0"
  /\ manifestRead.res.doc.shape = "invalid"
  /\ manifestRead.res.doc.toks # <<>>
  /\ displayName = manifestRead.app
  /\ pc = "eo_rename"

\* C4: in extract_all, success_count always equals the number of returned
\* extract_quickapp calls that returned True, with
\* 0 <= success_count <= calls returned so far <= len(apps); the summary line
\* reports that count over len(apps) once every item has been processed.
C4_SuccessCount ==
  IsExtractAll =>
    /\ success_count = NumTrue(calls)
    /\ 0 <= success_count
    /\ success_count <= Len(calls)
    /\ Len(calls) <= Len(apps)
    /\ summary # <<>> =>
         /\ Len(calls) = Len(apps)
         /\ summary = <<NumTrue(calls), Len(apps)>>

C4_Witness ==
  /\ IsExtractAll
  /\ summary = <<1, 2>>
  /\ calls[1].ret /\ ~calls[2].ret

\* C5: clear_cache issues a remote delete only after a confirmation equal to
\* "y" or "Y"; after any other input (empty, "yes", "n", "y" with whitespace
\* around it) it ends with no delete and no further bridge command issued.
C5_ClearNeedsExactY ==
  argv.cmd = "clear" =>
    /\ deleted # <<>> => confirm \in {<<"y">>, <<"Y">>}
    /\ pc = "cc_loop" => confirm \in {<<"y">>, <<"Y">>}
    /\ (pc = "done" /\ apps # <<>> /\ confirm \notin {<<"y">>, <<"Y">>}) =>
         deleted = <<>> /\ bridgeCount = 2 /\ summary = <<>>

C5_Witness ==
  /\ argv.cmd = "clear" /\ pc = "done" /\ Len(apps) = 2
  /\ confirm = <<"y", " ">>
  /\ deleted = <<>>

\* C6: check_adb_device returns False exactly when `adb devices` printed no
\* non-blank line after its header (or could not be run); extract_all then
\* returns at once: the device listing stays the only bridge command, the
\* remote listing is never made and extract_quickapp is never called.
C6_NoDeviceNoWork ==
  IsExtractAll =>
    /\ (checkOk # "none" /\ pc \in {"list", "done"} /\ apps = <<>> /\ bridgeCount = 1) =>
         (checkOk = "true" <=>
            \E i \in 2..Len(devOut) : \E j \in DOMAIN devOut[i] : ~IsSpace(devOut[i][j]))
    /\ checkOk = "false" =>
         /\ pc = "done"
         /\ bridgeCount = 1
         /\ apps = <<>> /\ calls = <<>> /\ steps = <<>> /\ callState = "idle"
         /\ summary = <<>> /\ dirs = {}

C6_Witness ==
  /\ IsExtractAll /\ checkOk = "false" /\ pc = "done"
  /\ Len(devOut) = 3

\* C7: within one extract_all run, the local directory names made for two
\* different listed items never coincide.
C7_UniqueOutputNames ==
  IsExtractAll =>
    \A i, j \in DOMAIN calls :
      i # j => Range(calls[i].names) \cap Range(calls[j].names) = {}

\* C8: in an extract_quickapp call the rename is attempted only after that
\* call's pull returned exit code 0 (everything before it returned, the copy
\* and the chmod with exit code 0), and the call returns True only if the
\* rename was performed.
C8_RenameOnlyAfterPullOk ==
  /\ \A i \in DOMAIN steps :
       steps[i].op \in {"cat", "rename"} =>
         /\ \E j \in 1..(i - 1) : steps[j] = Ev("pull", "0")
         /\ HasEv("cp", "0") /\ HasEv("chmod", "0")
         /\ \A j \in 1..(i - 1) : steps[j].rc # "raise" \/ steps[j].op \in {"cat"}
  /\ pc \in {"eo_cat", "eo_rename"} => pullRc = "0"
  /\ (Returned /\ lastRet) => steps[Len(steps)] = Ev("rename", "0")
  /\ \A i \in DOMAIN calls : calls[i].ret => Len(calls[i].names) = 2

C8_Witness == Returned /\ lastRet /\ HasEv("rename", "0") /\ HasEv("rm", "1")

\* C9: once check_adb_device succeeded and list_quickapps returned a
\* non-empty list, extract_all never ends abnormally, calls extract_quickapp
\* for the listed items in list order, one call at a time, and ends only after
\* every item was processed and the summary line was logged.
C9_RunReachesSummary ==
  (IsExtractAll /\ checkOk = "true" /\ apps # <<>>) =>
    /\ pc # "crashed"
    /\ Len(calls) <= Len(apps)
    /\ \A i \in DOMAIN calls : calls[i].app = apps[i]
    /\ pc = "done" => summary # <<>> /\ Len(calls) = Len(apps)

\* C10: in an extract_quickapp call the staging delete (rm -rf) is issued at
\* most once, exactly when the pull was invoked and returned (any exit code),
\* directly after the pull and before any manifest read or rename; after a
\* copy or chmod that exited non-zero, or a step up to the pull that raised, no
\* delete is issued, so after a successful copy and a failed chmod the staging
\* copy is still on the device when the call returns.
PullReturned == HasEv("pull", "0") \/ HasEv("pull", "1")

====
